---- MODULE Spec2Model ----
(***************************************************************************)
(* Website Quality Checker (src/website_quality_checker.py).               *)
(*                                                                         *)
(* The program is one Streamlit script.  Every user interaction (a new     *)
(* URL, a radio selection, a checkbox toggle, a notes edit, a button       *)
(* click) re-executes the whole script from line 1 against the widget      *)
(* values and st.session_state.  One action of this model is therefore one *)
(* interaction followed by the complete script run it causes (two runs for *)
(* Reset All, which ends in st.experimental_rerun()).                      *)
(*                                                                         *)
(* Strings the code inspects character by character (the URL) are          *)
(* sequences of one-character strings; the other texts are TLA+ strings.   *)
(***************************************************************************)
EXTENDS Integers, Sequences, FiniteSets, TLC

VARIABLES
    url_input,          \* value of the keyless st.text_input widget (line 52)
    radio_state,        \* values of the three keyed st.radio widgets, "absent" when not registered
    checkbox_state,     \* the keyed st.checkbox widgets whose value is True
    initial_screening,  \* st.session_state.initial_screening
    checked_items,      \* the keys of st.session_state.checked_items whose value is True
    notes,              \* st.session_state.notes
    url_key,            \* st.session_state.url_input (not set until Reset All sets it)
    current_rating,     \* st.session_state.current_rating ("absent" until Reset All sets it)
    message,            \* st.error shown by the URL section of the last run
    notice,             \* screening alert / warning shown by the last run
    rating,             \* rating label displayed by the last run
    indicator,          \* rating indicator displayed by the last run
    checked_count,      \* "n of 15 criteria met" displayed by the last run
    score,              \* displayed score, in tenths of a percent
    sections,           \* page sections rendered by the last run
    probes,             \* URLs passed to get_website_info while handling the last interaction
    event,              \* the last interaction
    results,            \* the results dict built by the last run (NoResults if none)
    results_text,       \* the text report built by the last run
    pdf_file,           \* the PDF built by the last run
    canvas              \* the canvas of a generate_pdf call in progress

vars == <<url_input, radio_state, checkbox_state, initial_screening, checked_items,
          notes, url_key, current_rating, message, notice, rating, indicator,
          checked_count, score, sections, probes, event, results, results_text,
          pdf_file, canvas>>

----------------------------------------------------------------------------
(* Bounds of the model *)

\* Criteria 1..FreeItems may be toggled in any order; the others are ticked in
\* catalog order and unticked in reverse order.
FreeItems == 1

\* Largest number of checked items handed to generate_pdf on its own.
MaxItems == 95

----------------------------------------------------------------------------
(* Program constants *)

NumCategories == 5
ItemsPerCategory == 3
FirstItemY == 500
TopY == 750
BottomY == 50
LineSpacing == 15

\* criteria (lines 141-167): 5 categories of 3 items; key k stands for
\* f"{category}_{item}" of the k-th item in catalog order.
Keys == 1 .. (NumCategories * ItemsPerCategory)

\* total_items = sum(len(items) for items in criteria.values())
total_items == NumCategories * ItemsPerCategory

Questions == {"harmful_purpose", "potential_harm", "high_trust_needed"}

----------------------------------------------------------------------------
(* Strings as character sequences *)

Str_http == <<"h", "t", "t", "p", ":", "/", "/">>
Str_https == <<"h", "t", "t", "p", "s", ":", "/", "/">>

Letters == {"h", "t", "p", "s", "a"}
scheme_chars == Letters \cup {"1", "."}

\* str.startswith(prefix)
StartsWith(s, p) == Len(s) >= Len(p) /\ SubSeq(s, 1, Len(p)) = p

\* str.find(c, start): least index >= start holding a character of cs, 0 if none
\* (indices are 1-based here).
Least(hits) == IF hits = {} THEN 0 ELSE CHOOSE i \in hits : \A j \in hits : i <= j

Find(s, cs, start) == Least({i \in start .. Len(s) : s[i] \in cs})

Contains(s, c) == \E i \in 1 .. Len(s) : s[i] = c

----------------------------------------------------------------------------
(* is_valid_url, lines 11-16, with urlparse as the standard library computes it *)

\* urlsplit: the scheme is the text before the first ':' (found at i) when
\* that text is non-empty, starts with a letter and holds only scheme
\* characters.
SchemeBefore(url, i) ==
    IF i > 1 /\ url[1] \in Letters /\ \A j \in 1 .. (i - 1) : url[j] \in scheme_chars
    THEN SubSeq(url, 1, i - 1)
    ELSE <<>>

UrlScheme(url) == SchemeBefore(url, Find(url, {":"}, 1))

\* what urlsplit is left with once the scheme and its ':' are taken off
AfterScheme(url, scheme) ==
    IF scheme = <<>> THEN url ELSE SubSeq(url, Len(scheme) + 2, Len(url))

\* _splitnetloc(url, 2): the text from position 3 up to the delimiter found at d
NetlocUpTo(rest, d) == SubSeq(rest, 3, IF d = 0 THEN Len(rest) ELSE d - 1)

\* urlsplit: after a leading "//", the text up to the first of / ? #
NetlocOf(rest) ==
    IF StartsWith(rest, <<"/", "/">>)
    THEN NetlocUpTo(rest, Find(rest, {"/", "?", "#"}, 3))
    ELSE <<>>

UrlNetloc(url) == NetlocOf(AfterScheme(url, UrlScheme(url)))

\* urlsplit raises ValueError("Invalid IPv6 URL") on an unbalanced bracket
NetlocRaises(netloc) == Contains(netloc, "[") /\ ~Contains(netloc, "]")

AnyOf(scheme, netloc) ==
    IF NetlocRaises(netloc) THEN FALSE ELSE scheme # <<>> \/ netloc # <<>>

\* lines 12-16: all([result.scheme, result.netloc]), False on an exception
AllOf(scheme, netloc) ==
    IF NetlocRaises(netloc) THEN FALSE ELSE scheme # <<>> /\ netloc # <<>>

is_valid_url_any(url) == AnyOf(UrlScheme(url), UrlNetloc(url))

is_valid_url(url) == AllOf(UrlScheme(url), UrlNetloc(url))

\* lines 64-65
Normalize(u) ==
    IF ~(StartsWith(u, Str_http) \/ StartsWith(u, Str_https)) THEN Str_https \o u ELSE u

\* get_website_info, lines 18-29: one requests.get; the network decides
\* whether it answers (reachable) or raises a RequestException.
get_website_info(url, reachable) ==
    IF reachable
    THEN <<TRUE, [https |-> StartsWith(url, <<"h", "t", "t", "p", "s">>)]>>
    ELSE <<FALSE, "RequestException">>

----------------------------------------------------------------------------
(* Screening section, lines 96-134 *)

\* line 70: the analysis and the screening radios are rendered only under
\* "if success", itself under "if is_valid_url(url_input)".
ScreeningRenderedAlways(valid, success) == valid

ScreeningRendered(valid, success) == valid /\ success

\* st.radio(..., ["No", "Yes"], key=q): the widget's stored value, or the first
\* option when the widget has no stored value.
RadioValue(radio, q) == IF radio[q] = "absent" THEN "No" ELSE radio[q]

\* lines 128-132
ScreeningNotice(screening) ==
    IF screening["harmful_purpose"] = "Yes" \/ screening["potential_harm"] = "Yes"
    THEN "alert"
    ELSE IF screening["high_trust_needed"] = "Yes" THEN "warning" ELSE "none"

----------------------------------------------------------------------------
(* Rating, lines 31-42 and 201-221 *)

calculate_rating_strict(count, total) ==
    IF count * 100 > 80 * total THEN <<"Highest", "Green">>
    ELSE IF count * 100 > 60 * total THEN <<"High", "Green">>
    ELSE IF count * 100 > 40 * total THEN <<"Medium", "Yellow">>
    ELSE IF count * 100 > 20 * total THEN <<"Low", "Orange">>
    ELSE <<"Lowest", "Red">>

\* percentage = (checked_count / total_items) * 100, compared with >=;
\* percentage >= t is count * 100 >= t * total.
calculate_rating(count, total) ==
    IF count * 100 >= 80 * total THEN <<"Highest", "Green">>
    ELSE IF count * 100 >= 60 * total THEN <<"High", "Green">>
    ELSE IF count * 100 >= 40 * total THEN <<"Medium", "Yellow">>
    ELSE IF count * 100 >= 20 * total THEN <<"Low", "Orange">>
    ELSE <<"Lowest", "Red">>

OverrideBoth(screening, base) ==
    IF screening["harmful_purpose"] = "Yes" /\ screening["potential_harm"] = "Yes"
    THEN <<"Lowest", "Red">>
    ELSE base

\* lines 207-209
Override(screening, base) ==
    IF screening["harmful_purpose"] = "Yes" \/ screening["potential_harm"] = "Yes"
    THEN <<"Lowest", "Red">>
    ELSE base

\* f"{(checked_count / total_items * 100):.1f}%": the percentage rounded to one
\* decimal, kept as a number of tenths.
ScoreTenths(count, total) == (2000 * count + total) \div (2 * total)

\* line 202: sum(1 for value in checked_items.values() if value)
CountChecked(items) == Cardinality(items)

\* st.text_area(value=st.session_state.notes): what the user typed in this run,
\* or the value passed in.
NoEdit == "<no edit>"
text_area(value, typed) == IF typed = NoEdit THEN value ELSE typed

----------------------------------------------------------------------------
(* Export, lines 234-330 *)

NoResults == [made |-> FALSE]
NoCanvas == [open |-> FALSE]

\* {k: v for k, v in checked_items.items() if v}: the checked keys, in the
\* dict's (catalog) order.
CheckedKeys(items) ==
    SelectSeq([k \in Keys |-> k], LAMBDA k : k \in items)

\* line 239: st.session_state.url_input if 'url_input' in st.session_state
\* else "Not specified"; the text_input widget of line 52 has no key and so
\* does not feed st.session_state.url_input.
NotSpecified == <<"Not specified">>
UrlOfSession(key) == IF key.set THEN key.value ELSE NotSpecified

\* lines 237-246
MakeResults(key, screening, label, tenths, count, nts, items) ==
    [made |-> TRUE,
     url |-> UrlOfSession(key),
     screening |-> screening,
     rating |-> label,
     score |-> tenths,
     met |-> <<count, total_items>>,
     notes |-> nts,
     checked |-> CheckedKeys(items)]

\* lines 249-270
MakeText(r) ==
    [url |-> r.url, screening |-> r.screening, rating |-> r.rating,
     score |-> r.score, met |-> r.met, notes |-> r.notes,
     checked |-> IF r.checked = <<>> THEN <<"None">> ELSE r.checked]

NeedNewPageAtMargin(y) == y <= BottomY

\* line 302
NeedNewPage(y) == y < BottomY

\* line 298 (or line 307 when nothing is checked): the canvas once the header
\* lines 279-296 are written.  page counts the pages started so far, y is
\* where the next item goes, drawn lists the item lines written.
PdfBegin(r) ==
    IF r.checked # <<>>
    THEN [drawn |-> <<>>, page |-> 1, y |-> FirstItemY]
    ELSE [drawn |-> <<[page |-> 1, y |-> FirstItemY, item |-> "None"]>>,
          page |-> 1, y |-> FirstItemY]

\* lines 300-305: one iteration of the loop over the checked items
PdfStep(c, item) ==
    LET d == Append(c.drawn, [page |-> c.page, y |-> c.y, item |-> item])
    IN IF NeedNewPage(c.y - LineSpacing)
       THEN [drawn |-> d, page |-> c.page + 1, y |-> TopY]
       ELSE [drawn |-> d, page |-> c.page, y |-> c.y - LineSpacing]

\* lines 299-305: the whole loop
RECURSIVE PdfLoop(_, _, _)
PdfLoop(items, i, c) ==
    IF i > Len(items) THEN c ELSE PdfLoop(items, i + 1, PdfStep(c, items[i]))

\* lines 310-312.  pages is what pdf.save() writes out: the pages closed by
\* showPage plus the page in progress (which is never empty: page 1 holds the
\* header lines, a later one the setFont of line 304).
PdfSave(r, c) ==
    [made |-> TRUE,
     url |-> r.url, screening |-> r.screening, rating |-> r.rating,
     score |-> r.score, met |-> r.met,
     notes |-> IF r.notes # "" THEN r.notes ELSE "None",
     drawn |-> c.drawn,
     pages |-> c.page]

\* generate_pdf, lines 273-312
generate_pdf(r) == PdfSave(r, PdfLoop(r.checked, 1, PdfBegin(r)))

----------------------------------------------------------------------------
(* Reset All, lines 333-344 *)

ResetAll(ss) ==
    [initial_screening |-> [q \in Questions |-> "None"],
     checked_items |-> {},
     notes |-> "",
     url_key |-> [set |-> TRUE, value |-> <<>>],
     current_rating |-> "None"]

----------------------------------------------------------------------------
(* One execution of the script, lines 44-347 *)

\* lines 63-70 and 135-138: the URL section up to the probe.  raw is the text
\* of the URL field, reachable whether the site answers.
UrlChecked(raw, url, valid, reachable) ==
    [url |-> url,
     valid |-> valid,
     success |-> valid /\ get_website_info(url, reachable)[1],
     probes |-> IF valid THEN <<url>> ELSE <<>>]

UrlNormalized(raw, url, reachable) ==
    UrlChecked(raw, url, raw # <<>> /\ is_valid_url(url), reachable)

UrlSection(raw, reachable) ==
    UrlNormalized(raw, IF raw # <<>> THEN Normalize(raw) ELSE raw, reachable)

\* lines 135-138
UrlMessage(raw, u) ==
    IF raw = <<>> THEN "none"
    ELSE IF ~u.valid THEN "invalid"
    ELSE IF ~u.success THEN "unreachable"
    ELSE "none"

\* lines 96-132: the screening section, rendered (shown) or not.  A widget that
\* a run does not render loses its stored value.
ScreeningShown(shown, radio, answers) ==
    [shown |-> shown,
     screening |-> IF shown THEN [q \in Questions |-> RadioValue(radio, q)] ELSE answers,
     radio |-> IF shown THEN [q \in Questions |-> RadioValue(radio, q)]
               ELSE [q \in Questions |-> "absent"]]

ScreeningSection(u, radio, answers) ==
    ScreeningShown(ScreeningRendered(u.valid, u.success), radio, answers)

\* lines 201-221
RatingOf(rate, count) ==
    [rating |-> rate[1], indicator |-> rate[2], checked_count |-> count,
     score |-> ScoreTenths(count, total_items)]

RatingFor(screening, count) ==
    RatingOf(Override(screening, calculate_rating(count, total_items)), count)

RatingSection(screening, items) == RatingFor(screening, CountChecked(items))

\* lines 234-330
Exported(res) ==
    [results |-> res,
     results_text |-> IF res.made THEN MakeText(res) ELSE NoResults,
     pdf_file |-> IF res.made THEN generate_pdf(res) ELSE NoResults]

ExportSection(clicked, key, screening, rt, nts, items) ==
    Exported(IF clicked = "export"
             THEN MakeResults(key, screening, rt.rating, rt.score, rt.checked_count,
                              nts, items)
             ELSE NoResults)

\* what a run leaves: the widget values and session state it ends with and
\* what it put on the page
RunResult(w, ss, clicked, u, sc, nts, rt, ex) ==
    [radio |-> sc.radio,
     ss |-> [initial_screening |-> sc.screening,
             checked_items |-> w.check,                           \* lines 183-188
             notes |-> nts,
             url_key |-> ss.url_key,
             current_rating |-> ss.current_rating],
     message |-> UrlMessage(w.url, u),
     notice |-> IF u.success THEN ScreeningNotice(sc.screening) ELSE "none",
     rating |-> rt.rating,
     indicator |-> rt.indicator,
     checked_count |-> rt.checked_count,
     score |-> rt.score,
     sections |-> (IF u.success THEN {"analysis"} ELSE {})
                  \cup (IF sc.shown THEN {"screening"} ELSE {})
                  \cup {"checklist", "notes", "rating", "export_button", "reset_button"}
                  \cup (IF clicked = "export" THEN {"downloads"} ELSE {}),
     probes |-> u.probes,
     results |-> ex.results,
     results_text |-> ex.results_text,
     pdf_file |-> ex.pdf_file]

RunRated(w, ss, clicked, u, sc, nts, rt) ==
    RunResult(w, ss, clicked, u, sc, nts, rt,
              ExportSection(clicked, ss.url_key, sc.screening, rt, nts, w.check))

RunScreened(w, ss, typed, clicked, u, sc) ==
    RunRated(w, ss, clicked, u, sc,
             text_area(ss.notes, typed),                           \* lines 193-197
             RatingSection(sc.screening, w.check))

RunProbed(w, ss, typed, clicked, u) ==
    RunScreened(w, ss, typed, clicked, u,
                ScreeningSection(u, w.radio, ss.initial_screening))

\* w: the widget values the run starts from; ss: st.session_state; typed: the
\* text typed into the notes area (NoEdit if none); reachable: whether the
\* site answers; clicked: the button that caused the run.
ScriptRun(w, ss, typed, reachable, clicked) ==
    RunProbed(w, ss, typed, clicked, UrlSection(w.url, reachable))

\* the state a finished run leaves behind; earlier lists the probes of an
\* earlier run of the same interaction
Commit(r, earlier, ev) ==
    /\ radio_state' = r.radio
    /\ initial_screening' = r.ss.initial_screening
    /\ checked_items' = r.ss.checked_items
    /\ notes' = r.ss.notes
    /\ url_key' = r.ss.url_key
    /\ current_rating' = r.ss.current_rating
    /\ message' = r.message
    /\ notice' = r.notice
    /\ rating' = r.rating
    /\ indicator' = r.indicator
    /\ checked_count' = r.checked_count
    /\ score' = r.score
    /\ sections' = r.sections
    /\ probes' = earlier \o r.probes
    /\ event' = ev
    /\ results' = r.results
    /\ results_text' = r.results_text
    /\ pdf_file' = r.pdf_file
    /\ canvas' = NoCanvas

SessionState ==
    [initial_screening |-> initial_screening, checked_items |-> checked_items,
     notes |-> notes, url_key |-> url_key, current_rating |-> current_rating]

\* An interaction that causes a single run of the script.
Handle(w, typed, reachable, clicked, ev) ==
    Commit(ScriptRun(w, SessionState, typed, reachable, clicked), <<>>, ev)

\* line 347: st.experimental_rerun() after the reset of lines 335-344; r1 is
\* the run that the click caused.
Rerun(w, r1, reachable, ev) ==
    Commit(ScriptRun([w EXCEPT !.radio = r1.radio], ResetAll(r1.ss), NoEdit,
                     reachable, "none"),
           r1.probes, ev)

\* Reset All: the run caused by the click reaches line 333, resets the session
\* state and reruns the script.
HandleReset(w, reachable1, reachable2, ev) ==
    Rerun(w, ScriptRun(w, SessionState, NoEdit, reachable1, "reset"), reachable2, ev)

----------------------------------------------------------------------------
(* The session *)

\* URLs the user types in a session: none, one that is accepted, one that is
\* rejected.
UrlInputs ==
    { <<>>, <<"a">>, Str_https }

\* URL texts of every shape the URL section tells apart.
UrlForms ==
    { <<>>,
      <<"a">>,
      <<"a", ".", "a">>,
      Str_https \o <<"a">>,
      Str_http \o <<"a">>,
      Str_https,
      Str_http,
      Str_http \o <<"/", "a">>,
      Str_https \o <<"?", "a">>,
      Str_https \o <<"#">>,
      Str_https \o <<"[", "a">>,
      Str_https \o <<"a", "/", "a">>,
      <<"/", "a">>,
      <<"?">>,
      <<"[">>,
      <<"h", "t", "t", "p", ":", "/", "a">>,
      <<"1", ":", "/", "/", "a">> }

NoteTexts == {"", "draft"}

Ev(kind, arg) == [kind |-> kind, arg |-> arg]

\* The first run of the script in a new session, the URL field holding url.
FirstRun(url) ==
    ScriptRun([url |-> url, radio |-> [q \in Questions |-> "absent"], check |-> {}],
              [initial_screening |-> [q \in Questions |-> "None"],   \* lines 55-60
               checked_items |-> {},                                  \* lines 170-171
               notes |-> "",                                          \* lines 174-175
               url_key |-> [set |-> FALSE, value |-> <<>>], current_rating |-> "absent"],
              NoEdit, TRUE, "none")

\* the state a session starts in, given its first run r
SessionStart(r) ==
    /\ url_input = <<>>
    /\ checkbox_state = {}
    /\ radio_state = r.radio
    /\ initial_screening = r.ss.initial_screening
    /\ checked_items = r.ss.checked_items
    /\ notes = r.ss.notes
    /\ url_key = r.ss.url_key
    /\ current_rating = r.ss.current_rating
    /\ message = r.message
    /\ notice = r.notice
    /\ rating = r.rating
    /\ indicator = r.indicator
    /\ checked_count = r.checked_count
    /\ score = r.score
    /\ sections = r.sections
    /\ probes = <<>>
    /\ event = Ev("start", "")

\* The session after the first run of the script: nothing typed or ticked.
Init ==
    /\ SessionStart(FirstRun(<<>>))
    /\ results = NoResults
    /\ results_text = NoResults
    /\ pdf_file = NoResults
    /\ canvas = NoCanvas

\* what the network can answer to the probe of a run: the site answers or it
\* does not; a run that does not probe (line 67) never asks.
Outcomes(raw) == IF UrlSection(raw, TRUE).valid THEN BOOLEAN ELSE {FALSE}

Widgets == [url |-> url_input, radio |-> radio_state, check |-> checkbox_state]

\* the user enters a new URL (line 52)
SubmitUrl(u) ==
    /\ u # url_input
    /\ url_input' = u
    /\ UNCHANGED checkbox_state
    /\ \E reachable \in Outcomes(u) :
          Handle([Widgets EXCEPT !.url = u], NoEdit, reachable, "none", Ev("submit", ""))

\* the user picks an answer of a screening radio that is on the page
SelectAnswer(q, v) ==
    /\ radio_state[q] \notin {"absent", v}
    /\ UNCHANGED <<url_input, checkbox_state>>
    /\ \E reachable \in Outcomes(url_input) :
          Handle([Widgets EXCEPT !.radio[q] = v], NoEdit, reachable, "none", Ev("select", q))

\* the user ticks or unticks a criterion
CanToggle(k) ==
    \/ k <= FreeItems
    \/ /\ k \notin checkbox_state
       /\ \A j \in (FreeItems + 1) .. (k - 1) : j \in checkbox_state
    \/ /\ k \in checkbox_state
       /\ \A j \in (k + 1) .. total_items : j \notin checkbox_state

Toggle(k) ==
    /\ CanToggle(k)
    /\ checkbox_state' = IF k \in checkbox_state THEN checkbox_state \ {k}
                         ELSE checkbox_state \cup {k}
    /\ UNCHANGED url_input
    /\ \E reachable \in Outcomes(url_input) :
          Handle([Widgets EXCEPT !.check = checkbox_state'], NoEdit, reachable, "none",
                 Ev("toggle", ""))

\* the user edits the notes
EditNotes(n) ==
    /\ n # notes
    /\ UNCHANGED <<url_input, checkbox_state>>
    /\ \E reachable \in Outcomes(url_input) :
          Handle(Widgets, n, reachable, "none", Ev("notes", ""))

\* the user clicks Export Results (line 234)
Export ==
    /\ UNCHANGED <<url_input, checkbox_state>>
    /\ \E reachable \in Outcomes(url_input) :
          Handle(Widgets, NoEdit, reachable, "export", Ev("export", ""))

\* the user clicks Reset All (line 333)
Reset ==
    /\ UNCHANGED <<url_input, checkbox_state>>
    /\ \E reachable1, reachable2 \in Outcomes(url_input) :
          HandleReset(Widgets, reachable1, reachable2, Ev("reset", ""))

Next ==
    \/ \E u \in UrlInputs : SubmitUrl(u)
    \/ \E q \in Questions, v \in {"No", "Yes"} : SelectAnswer(q, v)
    \/ \E k \in Keys : Toggle(k)
    \/ \E n \in NoteTexts : EditNotes(n)
    \/ Export
    \/ Reset

Spec == Init /\ [][Next]_vars

\* The same session with every URL shape and a fixed checklist.
NextUrl ==
    \/ \E u \in UrlForms : SubmitUrl(u)
    \/ \E q \in Questions, v \in {"No", "Yes"} : SelectAnswer(q, v)
    \/ Export
    \/ Reset

SpecUrl == Init /\ [][NextUrl]_vars

----------------------------------------------------------------------------
(* generate_pdf on its own: a results dict holding n checked items *)

ResultsWith(n) ==
    [MakeResults([set |-> FALSE, value |-> <<>>], [q \in Questions |-> "None"],
                 "Lowest", 0, 0, "", {})
     EXCEPT !.checked = [i \in 1 .. n |-> i]]

InitPdf ==
    /\ SessionStart(FirstRun(<<>>))
    /\ \E n \in 0 .. MaxItems : results = ResultsWith(n)
    /\ results_text = NoResults
    /\ pdf_file = NoResults
    /\ canvas = NoCanvas

PdfUnchanged ==
    UNCHANGED <<url_input, radio_state, checkbox_state, initial_screening,
                checked_items, notes, url_key, current_rating, message, notice,
                rating, indicator, checked_count, score, sections, probes, event,
                results, results_text>>

\* lines 274-298: generate_pdf is entered and writes the header
PdfOpen ==
    /\ results.made /\ ~pdf_file.made /\ ~canvas.open
    /\ canvas' = [open |-> TRUE, next |-> 1, c |-> PdfBegin(results)]
    /\ pdf_file' = pdf_file
    /\ PdfUnchanged

\* lines 299-305: one iteration of the loop
PdfDraw ==
    /\ canvas.open /\ canvas.next <= Len(results.checked)
    /\ canvas' = [canvas EXCEPT !.next = @ + 1,
                                 !.c = PdfStep(@, results.checked[canvas.next])]
    /\ pdf_file' = pdf_file
    /\ PdfUnchanged

\* lines 310-312 and 315: the loop is over, the PDF is saved
PdfClose ==
    /\ canvas.open /\ canvas.next > Len(results.checked)
    /\ pdf_file' = PdfSave(results, canvas.c)
    /\ canvas' = NoCanvas
    /\ PdfUnchanged

NextPdf == PdfOpen \/ PdfDraw \/ PdfClose

SpecPdf == InitPdf /\ [][NextPdf]_vars

----------------------------------------------------------------------------
(* Properties *)

\* what the user sees selected and ticked
Disqualified ==
    initial_screening["harmful_purpose"] = "Yes" \/ initial_screening["potential_harm"] = "Yes"

Ticked == Cardinality(checkbox_state)

TickedSeq == SelectSeq([k \in 1 .. 15 |-> k], LAMBDA k : k \in checkbox_state)

Ceil(a, b) == (a + b - 1) \div b

\* s tenths of a percent is 100 * c / 15 rounded to one decimal
IsTruePercentage(s, c) == 2000 * c - 15 <= 30 * s /\ 30 * s <= 2000 * c + 15

LabelForCount(c) ==
    IF c \in 12 .. 15 THEN <<"Highest", "Green">>
    ELSE IF c \in 9 .. 11 THEN <<"High", "Green">>
    ELSE IF c \in 6 .. 8 THEN <<"Medium", "Yellow">>
    ELSE IF c \in 3 .. 5 THEN <<"Low", "Orange">>
    ELSE <<"Lowest", "Red">>

\* C1: without disqualification the displayed label and tier are Highest/Green
\* for 12-15 ticked criteria, High/Green for 9-11, Medium/Yellow for 6-8,
\* Low/Orange for 3-5 and Lowest/Red for 0-2.
C1_RatingTable ==
    ~Disqualified => <<rating, indicator>> = LabelForCount(Ticked)

C1_Witness ==
    /\ ~Disqualified /\ Ticked = 6
    /\ rating = "Medium" /\ indicator = "Yellow" /\ score = 400

\* C2: while harmful-purpose or potential-harm is Yes, the displayed and the
\* exported rating is Lowest/Red whatever is ticked, and the displayed and the
\* exported score is still the true percentage of ticked criteria.
C2_DisqualifiedLowest ==
    Disqualified =>
        /\ rating = "Lowest" /\ indicator = "Red"
        /\ checked_count = Ticked
        /\ IsTruePercentage(score, Ticked)
        /\ Ticked > 0 => score > 0
        /\ results.made =>
              /\ results.rating = "Lowest" /\ IsTruePercentage(results.score, Ticked)
              /\ results_text.rating = "Lowest" /\ results_text.score = results.score
              /\ pdf_file.rating = "Lowest" /\ pdf_file.score = results.score

C2_Witness ==
    /\ Disqualified /\ Ticked = 15 /\ results.made
    /\ rating = "Lowest" /\ results.rating = "Lowest" /\ results.score = 1000

\* C3 (as claimed): once Reset All has been handled, rerun included, nothing is
\* ticked, the three answers are unanswered, the notes are empty and the URL
\* field is empty.
C3_ResetClearsAll ==
    event.kind = "reset" =>
        /\ Ticked = 0 /\ checked_count = 0
        /\ \A q \in Questions : initial_screening[q] = "None"
        /\ notes = ""
        /\ url_input = <<>>

HasHttpPrefix(u) ==
    \E p \in {Str_http, Str_https} :
        Len(u) >= Len(p) /\ \A i \in 1 .. Len(p) : u[i] = p[i]

ExpectedUrl(u) == IF HasHttpPrefix(u) THEN u ELSE Str_https \o u

\* the host of scheme://host...: nothing, or nothing before the first / ? #
HostEmpty(n) ==
    LET start == IF n[5] = "s" THEN 9 ELSE 8
    IN Len(n) < start \/ n[start] \in {"/", "?", "#"}

PlainHost(u) == u # <<>> /\ \A i \in 1 .. Len(u) : u[i] \in {"a", "."}

FirstPageItems == (FirstItemY - BottomY) \div LineSpacing + 1
LaterPageItems == (TopY - BottomY) \div LineSpacing + 1

ItemPages(doc) == Cardinality({doc.drawn[i].page : i \in 1 .. Len(doc.drawn)})
DrawnItems(doc) == [i \in 1 .. Len(doc.drawn) |-> doc.drawn[i].item]

C6_ErrorKeepsState ==
    [][ /\ (event'.kind = "submit" /\ url_input' # <<>> /\ "analysis" \notin sections')
            => message' \in {"invalid", "unreachable"}
        /\ (event'.kind = "submit" /\ message' \in {"invalid", "unreachable"}) =>
            /\ initial_screening' = initial_screening
            /\ checked_items' = checked_items
            /\ notes' = notes
            /\ rating' = rating /\ score' = score
            /\ {"checklist", "notes", "rating", "export_button"} \subseteq sections'
      ]_vars

C6_Witness ==
    /\ event.kind = "submit" /\ message = "unreachable"
    /\ initial_screening["high_trust_needed"] = "Yes"
    /\ Ticked > 0 /\ notes = "draft"
    /\ "export_button" \in sections

\* C7 (as claimed): the exported snapshot, its text and its PDF hold the URL
\* the user has entered, the current answers, the ticked criteria, the notes
\* and the displayed rating and score.
C7_SnapshotCurrent ==
    results.made =>
        /\ url_input # <<>> => results.url = url_input
        /\ results.screening = initial_screening
        /\ Len(results.checked) = Ticked
        /\ Ticked > 0 => results.checked = TickedSeq
        /\ results.notes = notes
        /\ results.rating = rating /\ results.score = score
        /\ results_text.url = results.url /\ pdf_file.url = results.url
        /\ results_text.rating = rating /\ pdf_file.rating = rating
        /\ results_text.score = score /\ pdf_file.score = score

\* C8 (as claimed): an answer changes only when the user selects an answer of
\* that question, or goes back to unanswered on Reset All.
C8_AnswersOnlyBySelection ==
    [][ \A q \in Questions :
            initial_screening'[q] # initial_screening[q] =>
                \/ event'.kind = "select" /\ event'.arg = q
                \/ event'.kind = "reset" /\ initial_screening'[q] = "None"
      ]_vars

\* C9 (as claimed): handling Export Results or Reset All issues no HTTP request.
C9_ExportResetNoProbe ==
    event.kind \in {"export", "reset"} => probes = <<>>

\* C10 (as claimed): the disqualification alert is raised exactly when
\* harmful-purpose or potential-harm is Yes, the extra-scrutiny notice exactly
\* when neither is Yes and high-trust-needed is Yes, whatever the URL and the
\* probe outcome.
C10_SignalsFromAnswers ==
    /\ notice = "alert" <=> Disqualified
    /\ notice = "warning" <=>
          (~Disqualified /\ initial_screening["high_trust_needed"] = "Yes")

====
